---- MODULE Spec2Model ----
(***************************************************************************)
(* libcsv (csv.h): the ragged CSV buffer, its mutation primitives, the     *)
(* field tokenizer, the loader, the serializer and the accessors.          *)
(*                                                                         *)
(* Every C function is an operator from an execution record to an          *)
(* execution record, composed the way the C code calls them; every public  *)
(* entry point is one action.  The execution record carries the CSV_BUFFER *)
(* (rows, width, field), the liveness of the two index arrays (wlive,      *)
(* flive), the return value of the last function (ret), and the            *)
(* environment's choices: which growth reallocation fails (plan) and what  *)
(* realloc(p, 0) does on this C library (zero_null).                       *)
(*                                                                         *)
(* Undefined behaviour (an index outside an array, use of freed storage)   *)
(* sets ub and stops the function; divergence of a loop sets hang.         *)
(*                                                                         *)
(* Not modelled: failure of the text allocations (malloc in create_field   *)
(* and read_next_field, realloc in set_field and add_char) and of the      *)
(* shrinking reallocations to a non-zero size; the bytes NUL and 0xFF in   *)
(* field texts and streams.                                                *)
(***************************************************************************)
EXTENDS Integers, Sequences, FiniteSets, TLC

(***************************************************************************)
(* Bounds of the model.                                                    *)
(***************************************************************************)
MaxRows == 2        \* rows a buffer may grow to in the operation machine
MaxWidth == 2       \* fields a row may grow to in the operation machine
SizeBits == 3       \* width of size_t in the model (2^SizeBits values)
MaxDestLen == 2     \* largest dest_len handed to csv_get_field
MaxAllocAt == 3     \* the failing allocation is among the first MaxAllocAt
RtMaxRows == 2      \* rows of a buffer of the save / load machine
RtMaxWidth == 2     \* fields of a row of the save / load machine
RtMaxLen == 1       \* characters of a field text of the save / load machine
MaxStreamLen == 5   \* characters of a stream of the load machine

SIZE_MOD == 2 ^ SizeBits
SIZE_MAX == SIZE_MOD - 1

\* size_t arithmetic wraps
SizeT(x) == x % SIZE_MOD
\* conversion of a size_t value to int (remove_last_row, csv_load, append_field)
ToInt(x) == IF x >= SIZE_MOD \div 2 THEN x - SIZE_MOD ELSE x

(***************************************************************************)
(* Characters.                                                             *)
(***************************************************************************)
FIELD_DELIM == ","
TEXT_DELIM == "\""
NEWLINE == "\n"
NUL == "NUL"
EOF == "EOF"

(***************************************************************************)
(* CSV_FIELD: text without its terminator, length = strlen(text) + 1.      *)
(***************************************************************************)
\* a set_field that sets the length and leaves the old text in place
set_field_no_copy(f, text) == [text |-> f.text, length |-> Len(text) + 1]

set_field(f, text) == [text |-> text, length |-> Len(text) + 1]

create_field == set_field([text |-> <<>>, length |-> 0], <<>>)

(***************************************************************************)
(* Execution records.                                                      *)
(***************************************************************************)
NoFail == [at |-> 0, always |-> FALSE]

Exec(b, h, plan) ==
    [rows |-> b.rows, width |-> b.width, field |-> b.field,
     wlive |-> h.wlive, flive |-> h.flive, zero_null |-> h.zero_null,
     leaked |-> h.leaked,
     field_delim |-> b.field_delim, text_delim |-> b.text_delim,
     fp |-> "none", out |-> <<>>,
     ub |-> FALSE, hang |-> FALSE, n |-> 0, plan |-> plan, ret |-> 0]

Ret(e, r) == [e EXCEPT !.ret = r]
UB(e) == [e EXCEPT !.ub = TRUE]
Hang(e) == [e EXCEPT !.hang = TRUE]
Stopped(e) == e.ub \/ e.hang

\* the next growth reallocation returns NULL
AllocFails(e) ==
    /\ e.plan.at # 0
    /\ IF e.plan.always THEN e.n + 1 >= e.plan.at ELSE e.n + 1 = e.plan.at
Tick(e) == [e EXCEPT !.n = @ + 1]

\* buffer->width[row] and buffer->field[row] may be read
WidthOk(e, row) == e.wlive /\ row < e.rows
FieldRowOk(e, row) == e.flive /\ row < e.rows
\* buffer->field[row][entry] is a live CSV_FIELD
CellOk(e, row, entry) ==
    WidthOk(e, row) /\ FieldRowOk(e, row) /\ entry < Len(e.field[row + 1])

SameBuffer(e1, e2) ==
    /\ e1.rows = e2.rows /\ e1.width = e2.width /\ e1.field = e2.field
    /\ e1.wlive = e2.wlive /\ e1.flive = e2.flive

(***************************************************************************)
(* Mutation primitives.                                                    *)
(***************************************************************************)
append_field(e, row) ==
    IF Stopped(e) THEN e
    ELSE IF e.rows < SizeT(row + 1) THEN Ret(e, 1)
    ELSE IF ~WidthOk(e, row) \/ ~FieldRowOk(e, row) THEN UB(e)
    ELSE IF AllocFails(e) THEN Ret(Tick(e), 2)
    ELSE [Tick(e) EXCEPT !.field[row + 1] = Append(@, create_field),
                         !.width[row + 1] = SizeT(@ + 1),
                         !.ret = 0]

append_row(e) ==
    IF Stopped(e) THEN e
    ELSE IF ~e.wlive THEN UB(e)
    ELSE IF AllocFails(e) THEN Ret(Tick(e), 1)
    ELSE LET e1 == Tick(e)
         IN  IF ~e1.flive THEN UB(e1)
             ELSE IF AllocFails(e1)
                  THEN [Tick(e1) EXCEPT !.wlive = FALSE, !.ret = 2]
                  ELSE LET e2 == [Tick(e1) EXCEPT
                                     !.width = Append(@, 0),
                                     !.field = Append(@, <<>>),
                                     !.rows = SizeT(@ + 1)]
                       IN  Ret(append_field(e2, e.rows), 0)

RECURSIVE remove_last_field(_, _)

csv_clear_field(e, row, entry) ==
    IF Stopped(e) THEN e
    ELSE IF e.rows < SizeT(row + 1) THEN Ret(e, 0)
    ELSE IF ~WidthOk(e, row) THEN UB(e)
    ELSE IF e.width[row + 1] < SizeT(entry + 1) THEN Ret(e, 0)
    ELSE IF entry = SizeT(e.width[row + 1] - 1) /\ entry # 0
         THEN Ret(remove_last_field(e, row), 0)
    ELSE IF ~CellOk(e, row, entry) THEN UB(e)
    ELSE [e EXCEPT !.field[row + 1][entry + 1] = set_field(@, <<>>),
                   !.ret = 0]

remove_last_field(e, row) ==
    IF Stopped(e) THEN e
    \* line 497 reads width[row] before the row is checked
    ELSE IF ~WidthOk(e, row) THEN UB(e)
    ELSE LET entry == SizeT(e.width[row + 1] - 1)
         IN  IF row > SizeT(e.rows - 1) THEN Ret(e, 0)
             ELSE IF e.width[row + 1] = 0 THEN Ret(e, 1)
             ELSE IF e.width[row + 1] = 1
                  THEN Ret(csv_clear_field(e, row, 0), 0)
             ELSE IF ~CellOk(e, row, entry) THEN UB(e)
             ELSE [e EXCEPT !.field[row + 1] = SubSeq(@, 1, entry),
                            !.width[row + 1] = SizeT(@ - 1),
                            !.ret = 0]

\* lines 543-546: remove_last_field is called once per field of the row
RECURSIVE remove_last_row_fields(_, _, _)
remove_last_row_fields(e, row, entry) ==
    IF Stopped(e) \/ entry < 0 THEN e
    ELSE remove_last_row_fields(remove_last_field(e, SizeT(row)), row,
                                entry - 1)

remove_last_row(e) ==
    IF Stopped(e) THEN e
    ELSE LET row == ToInt(SizeT(e.rows - 1))
         IN  IF row < 0 \/ ~WidthOk(e, row) THEN UB(e)
             ELSE LET entry == ToInt(SizeT(e.width[row + 1] - 1))
                      e1 == remove_last_row_fields(e, row, entry)
                  IN  IF Stopped(e1) THEN e1
                      ELSE IF ~e1.flive \/ ~e1.wlive THEN UB(e1)
                      \* realloc(p, 0): a C library that frees p and returns
                      \* NULL makes both temporaries NULL
                      ELSE IF SizeT(e1.rows - 1) = 0 /\ e1.zero_null
                           THEN [e1 EXCEPT !.flive = FALSE, !.wlive = FALSE,
                                           !.leaked = TRUE, !.ret = 1]
                      ELSE [e1 EXCEPT
                               !.field = SubSeq(@, 1, e1.rows - 1),
                               !.width = SubSeq(@, 1, e1.rows - 1),
                               !.rows = SizeT(@ - 1),
                               !.leaked = @ \/ Len(e1.field[row + 1]) > 0,
                               !.ret = 0]

csv_clear_row(e, row) ==
    IF Stopped(e) THEN e
    ELSE IF row = SizeT(e.rows - 1)
         THEN LET e1 == remove_last_row(e)
              IN  IF Stopped(e1) THEN e1
                  ELSE Ret(e1, IF e1.ret # 0 THEN 1 ELSE 0)
    ELSE IF ~WidthOk(e, row) THEN UB(e)
    \* width 0: the loop of line 757 starts at field[row][SIZE_MAX]
    ELSE IF ~CellOk(e, row, SizeT(e.width[row + 1] - 1)) THEN UB(e)
    ELSE [e EXCEPT !.field[row + 1] = <<set_field(@[1], <<>>)>>,
                   !.width[row + 1] = 1,
                   !.ret = 0]

(***************************************************************************)
(* A source buffer is either the destination itself or another buffer.     *)
(***************************************************************************)
SELF == [self |-> TRUE]
\* another buffer, sound and not touched by the call
Other(b) ==
    [self |-> FALSE, rows |-> b.rows, width |-> b.width, field |-> b.field,
     wlive |-> TRUE, flive |-> TRUE]
Src(d, s) == IF s.self THEN d ELSE s

\* a copy that leaves the destination field as it is
csv_copy_field_nothing(d, dest_row, dest_entry, s, source_row, source_entry) ==
    IF Stopped(d) THEN d ELSE Ret(d, 0)

csv_copy_field(d, dest_row, dest_entry, s, source_row, source_entry) ==
    IF Stopped(d) THEN d
    ELSE IF \/ dest_row < 0 \/ dest_entry < 0
            \/ source_row < 0 \/ source_entry < 0
            \/ ~CellOk(d, dest_row, dest_entry)
            \/ ~CellOk(Src(d, s), source_row, source_entry)
         THEN UB(d)
    ELSE [d EXCEPT
            !.field[dest_row + 1][dest_entry + 1] =
                set_field(@, Src(d, s).field[source_row + 1]
                                            [source_entry + 1].text),
            !.ret = 0]

\* lines 789-791
RECURSIVE copy_row_grow(_, _)
copy_row_grow(d, dest_row) ==
    IF Stopped(d) THEN d
    ELSE IF ~(d.rows < SizeT(dest_row + 1)) THEN Ret(d, 0)
    ELSE LET d1 == append_row(d)
         IN  IF Stopped(d1) THEN d1
             ELSE IF d1.ret # 0 THEN Ret(d1, 1)
             ELSE copy_row_grow(d1, dest_row)

\* lines 793-795; a destination of width 1 over a source of width 0 is
\* cleared for ever
RECURSIVE copy_row_trim(_, _, _, _)
copy_row_trim(d, dest_row, s, source_row) ==
    IF Stopped(d) THEN d
    ELSE IF ~WidthOk(d, dest_row) \/ ~WidthOk(Src(d, s), source_row)
         THEN UB(d)
    ELSE IF ~(d.width[dest_row + 1] > Src(d, s).width[source_row + 1])
         THEN Ret(d, 0)
    ELSE LET d1 == remove_last_field(d, dest_row)
         IN  IF Stopped(d1) THEN d1
             ELSE IF d1.ret # 0 THEN Ret(d1, 1)
             ELSE IF d1.width = d.width THEN Hang(d1)
             ELSE copy_row_trim(d1, dest_row, s, source_row)

\* lines 797-799
RECURSIVE copy_row_pad(_, _, _, _)
copy_row_pad(d, dest_row, s, source_row) ==
    IF Stopped(d) THEN d
    ELSE IF ~WidthOk(d, dest_row) \/ ~WidthOk(Src(d, s), source_row)
         THEN UB(d)
    ELSE IF ~(d.width[dest_row + 1] < Src(d, s).width[source_row + 1])
         THEN Ret(d, 0)
    ELSE LET d1 == append_field(d, dest_row)
         IN  IF Stopped(d1) THEN d1
             ELSE IF d1.ret # 0 THEN Ret(d1, 1)
             ELSE copy_row_pad(d1, dest_row, s, source_row)

\* lines 801-802
RECURSIVE copy_row_fields(_, _, _, _, _)
copy_row_fields(d, dest_row, s, source_row, i) ==
    IF Stopped(d) THEN d
    ELSE IF ~WidthOk(d, dest_row) THEN UB(d)
    ELSE IF ~(i < d.width[dest_row + 1]) THEN d
    ELSE copy_row_fields(
             csv_copy_field(d, dest_row, i, s, source_row, i),
             dest_row, s, source_row, i + 1)

csv_copy_row(d, dest_row, s, source_row) ==
    IF Stopped(d) THEN d
    ELSE IF source_row > SizeT(Src(d, s).rows - 1)
         THEN Ret(csv_clear_row(d, dest_row), 0)
    ELSE LET d1 == copy_row_grow(d, dest_row)
         IN  IF Stopped(d1) \/ d1.ret # 0 THEN d1
             ELSE LET d2 == copy_row_trim(d1, dest_row, s, source_row)
                  IN  IF Stopped(d2) \/ d2.ret # 0 THEN d2
                      ELSE LET d3 == copy_row_pad(d2, dest_row, s, source_row)
                           IN  IF Stopped(d3) \/ d3.ret # 0 THEN d3
                               ELSE Ret(copy_row_fields(d3, dest_row, s,
                                                        source_row, 0), 0)

\* lines 813-814
RECURSIVE remove_row_shift(_, _)
remove_row_shift(e, i) ==
    IF Stopped(e) THEN e
    ELSE IF ~(i < SizeT(e.rows - 1)) THEN e
    ELSE remove_row_shift(csv_copy_row(e, i, SELF, SizeT(i + 1)),
                          SizeT(i + 1))

csv_remove_row(e, row) ==
    IF Stopped(e) THEN e
    ELSE IF row > SizeT(e.rows - 1) THEN Ret(e, 0)
    ELSE Ret(remove_last_row(remove_row_shift(e, row)), 0)

\* lines 826-827
RECURSIVE remove_field_shift(_, _, _)
remove_field_shift(e, row, i) ==
    IF Stopped(e) THEN e
    ELSE IF ~WidthOk(e, row) THEN UB(e)
    ELSE IF ~(i < SizeT(e.width[row + 1] - 1)) THEN e
    ELSE remove_field_shift(
             csv_copy_field(e, ToInt(row), ToInt(i), SELF, ToInt(row),
                            ToInt(SizeT(i + 1))),
             row, SizeT(i + 1))

csv_remove_field(e, row, entry) ==
    IF Stopped(e) THEN e
    ELSE IF row > SizeT(e.rows - 1) THEN Ret(e, 0)
    ELSE IF ~WidthOk(e, row) THEN UB(e)
    ELSE IF entry > SizeT(e.width[row + 1] - 1) THEN Ret(e, 0)
    ELSE Ret(remove_last_field(remove_field_shift(e, row, entry), row), 0)

(***************************************************************************)
(* Size queries.                                                           *)
(***************************************************************************)
csv_get_height(e) == Ret(e, ToInt(e.rows))

csv_get_width(e, row) ==
    IF Stopped(e) THEN e
    ELSE IF row > SizeT(e.rows - 1) THEN Ret(e, 0)
    ELSE IF ~WidthOk(e, row) THEN UB(e)
    ELSE Ret(e, ToInt(e.width[row + 1]))

csv_get_field_length(e, row, entry) ==
    IF Stopped(e) THEN e
    ELSE IF row > SizeT(e.rows - 1) THEN Ret(e, 0)
    ELSE IF ~WidthOk(e, row) THEN UB(e)
    ELSE IF entry > SizeT(e.width[row + 1] - 1) THEN Ret(e, 0)
    ELSE IF ~CellOk(e, row, entry) THEN UB(e)
    ELSE Ret(e, ToInt(SizeT(e.field[row + 1][entry + 1].length - 1)))

(***************************************************************************)
(* csv_set_field and csv_insert_field.                                     *)
(***************************************************************************)
\* lines 871-873: the result of append_row is not looked at
RECURSIVE set_field_rows(_, _)
set_field_rows(e, row) ==
    IF Stopped(e) THEN e
    ELSE IF ~(row >= e.rows) THEN e
    ELSE LET e1 == append_row(e)
         IN  IF Stopped(e1) THEN e1
             ELSE IF e1.ret # 0 /\ SameBuffer(e1, e) /\ e1.plan.always
                  THEN Hang(e1)
             ELSE set_field_rows(e1, row)

\* lines 874-875: the result of append_field is not looked at
RECURSIVE set_field_entries(_, _, _)
set_field_entries(e, row, entry) ==
    IF Stopped(e) THEN e
    ELSE IF ~WidthOk(e, row) THEN UB(e)
    ELSE IF ~(entry >= e.width[row + 1]) THEN e
    ELSE LET e1 == append_field(e, row)
         IN  IF Stopped(e1) THEN e1
             ELSE IF e1.ret # 0 /\ SameBuffer(e1, e) /\ e1.plan.always
                  THEN Hang(e1)
             ELSE set_field_entries(e1, row, entry)

csv_set_field(e, row, entry, text) ==
    LET e1 == set_field_entries(set_field_rows(e, row), row, entry)
    IN  IF Stopped(e1) THEN e1
        ELSE IF ~CellOk(e1, row, entry) THEN UB(e1)
        ELSE [e1 EXCEPT !.field[row + 1][entry + 1] = set_field(@, text),
                        !.ret = 0]

\* lines 894-896
RECURSIVE insert_field_shift(_, _, _, _)
insert_field_shift(e, row, entry, i) ==
    IF Stopped(e) THEN e
    ELSE IF ~(i > entry) THEN e
    ELSE insert_field_shift(
             csv_copy_field(e, ToInt(row), ToInt(i), SELF, ToInt(row),
                            ToInt(SizeT(i - 1))),
             row, entry, SizeT(i - 1))

csv_insert_field(e, row, entry, text) ==
    IF Stopped(e) THEN e
    ELSE IF row > SizeT(e.rows - 1)
         THEN Ret(csv_set_field(e, row, entry, text), 0)
    ELSE IF ~WidthOk(e, row) THEN UB(e)
    ELSE IF entry > SizeT(e.width[row + 1] - 1)
         THEN Ret(csv_set_field(e, row, entry, text), 0)
    ELSE LET e1 == append_field(e, row)
         IN  IF Stopped(e1) THEN e1
             ELSE IF ~WidthOk(e1, row) THEN UB(e1)
             ELSE Ret(csv_set_field(
                          insert_field_shift(e1, row, entry,
                              SizeT(e1.width[row + 1] - 1)),
                          row, entry, text), 0)

(***************************************************************************)
(* csv_get_field.  dest is the caller's array dest[0 .. dest_len]: the     *)
(* dest_len bytes the caller announced and the byte after them.            *)
(***************************************************************************)
strncpy(dest, text, n) ==
    [i \in 1..Len(dest) |->
        IF i <= n THEN (IF i <= Len(text) THEN text[i] ELSE NUL)
        ELSE dest[i]]

\* lines 696-697
get_field_clear(dest, dest_len) == [dest EXCEPT ![1] = NUL]

\* a result code that counts the terminator into the capacity
get_field_code_off_by_one(f, dest_len) ==
    IF f.length > dest_len THEN 1
    ELSE IF f.length = 0 THEN 2
    ELSE 0

\* lines 712-717
get_field_code(f, dest_len) ==
    IF f.length > dest_len + 1 THEN 1
    ELSE IF f.length = 0 THEN 2
    ELSE 0

csv_get_field(dest, dest_len, e, row, entry) ==
    IF dest_len = 0 THEN [dest |-> dest, ret |-> 3, ub |-> FALSE]
    ELSE IF row >= e.rows
         THEN [dest |-> get_field_clear(dest, dest_len), ret |-> 2,
               ub |-> FALSE]
    ELSE IF ~WidthOk(e, row) THEN [dest |-> dest, ret |-> 0, ub |-> TRUE]
    ELSE IF entry >= e.width[row + 1]
         THEN [dest |-> get_field_clear(dest, dest_len), ret |-> 2,
               ub |-> FALSE]
    ELSE IF ~CellOk(e, row, entry) THEN [dest |-> dest, ret |-> 0, ub |-> TRUE]
    ELSE LET f == e.field[row + 1][entry + 1]
         IN  [dest |-> [strncpy(dest, f.text, dest_len)
                           EXCEPT ![dest_len + 1] = NUL],
              ret |-> get_field_code(f, dest_len),
              ub |-> FALSE]

(***************************************************************************)
(* The tokenizer.  A stream is a sequence of characters, pos the number    *)
(* of characters already read from it.                                     *)
(***************************************************************************)
getc(stream, pos) == IF pos < Len(stream) THEN stream[pos + 1] ELSE EOF
Advance(stream, pos) == IF pos < Len(stream) THEN pos + 1 ELSE pos

\* tmp keeps its first c characters and gets ch after them
add_char(t, ch) ==
    [t EXCEPT !.c = @ + 1, !.tmp = Append(SubSeq(@, 1, t.c), ch)]

\* lines 359-395
RECURSIVE read_field_text(_, _, _, _)
read_field_text(stream, field_delim, text_delim, t) ==
    IF t.done THEN t
    ELSE LET ch == getc(stream, t.pos)
             t0 == [t EXCEPT !.ch = ch, !.pos = Advance(stream, @)]
         IN  read_field_text(stream, field_delim, text_delim,
               IF ch = EOF THEN [t0 EXCEPT !.c = 0, !.done = TRUE]
               ELSE IF ~t0.in_text
                    THEN IF ch = text_delim
                         THEN [t0 EXCEPT !.in_text = TRUE, !.c = 0]
                         ELSE IF ch = field_delim THEN [t0 EXCEPT !.done = TRUE]
                         ELSE IF ch = NEWLINE THEN [t0 EXCEPT !.done = TRUE]
                         ELSE add_char(t0, ch)
               ELSE IF t0.esc
                    THEN IF ch = text_delim
                         THEN [add_char(t0, ch) EXCEPT !.esc = FALSE]
                         ELSE [t0 EXCEPT !.esc = FALSE, !.done = TRUE]
               ELSE IF ch = text_delim THEN [t0 EXCEPT !.esc = TRUE]
               ELSE add_char(t0, ch))

\* the second scan without the look past a newline of lines 418-424
RECURSIVE next_field_code_no_peek(_, _, _, _)
next_field_code_no_peek(stream, field_delim, ch, pos) ==
    IF ch = field_delim THEN [retval |-> 0, pos |-> pos]
    ELSE IF ch = NEWLINE THEN [retval |-> 1, pos |-> pos]
    ELSE IF ch = EOF THEN [retval |-> 2, pos |-> pos]
    ELSE next_field_code_no_peek(stream, field_delim, getc(stream, pos),
                                 Advance(stream, pos))

\* lines 410-433
RECURSIVE next_field_code(_, _, _, _)
next_field_code(stream, field_delim, ch, pos) ==
    IF ch = field_delim THEN [retval |-> 0, pos |-> pos]
    ELSE IF ch = NEWLINE
         THEN [retval |-> IF getc(stream, pos) = EOF THEN 2 ELSE 1,
               pos |-> pos]
    ELSE IF ch = EOF THEN [retval |-> 2, pos |-> pos]
    ELSE next_field_code(stream, field_delim, getc(stream, pos),
                         Advance(stream, pos))

\* a tokenizer for which the text delimiter is a character like any other
read_next_field_no_quotes(stream, pos, field_delim, text_delim) ==
    LET t == read_field_text(stream, field_delim, NUL,
                 [ch |-> "a", done |-> FALSE, in_text |-> FALSE,
                  esc |-> FALSE, c |-> 0, tmp |-> <<>>, pos |-> pos])
        r == next_field_code(stream, field_delim, t.ch, t.pos)
    IN  [text |-> t.tmp, retval |-> r.retval, pos |-> r.pos]

read_next_field(stream, pos, field_delim, text_delim) ==
    LET t == read_field_text(stream, field_delim, text_delim,
                 [ch |-> "a", done |-> FALSE, in_text |-> FALSE,
                  esc |-> FALSE, c |-> 0, tmp |-> <<>>, pos |-> pos])
        r == next_field_code(stream, field_delim, t.ch, t.pos)
    IN  [text |-> t.tmp, retval |-> r.retval, pos |-> r.pos]

(***************************************************************************)
(* The loader.                                                             *)
(***************************************************************************)
\* lines 610-636, one iteration per call
RECURSIVE load_loop(_, _, _, _, _, _, _)
load_loop(e, stream, pos, next0, first, i, j) ==
    IF Stopped(e) THEN e
    ELSE IF ~first /\ (i < 0 \/ j - 1 < 0 \/ ~CellOk(e, i, j - 1)) THEN UB(e)
    ELSE LET r == IF first THEN [text |-> <<>>, retval |-> next0, pos |-> pos]
                  ELSE read_next_field(stream, pos, e.field_delim,
                                       e.text_delim)
             e1 == IF first THEN e
                   ELSE [e EXCEPT !.field[i + 1][j] = set_field(@, r.text)]
             next == r.retval
         IN  IF next = 2 THEN [e1 EXCEPT !.fp = "closed", !.ret = 0]
             ELSE IF next = 1
                  THEN LET e2 == append_row(e1)
                       IN  IF Stopped(e2) THEN e2
                           ELSE IF e2.ret # 0 THEN Ret(e2, 2)
                           ELSE load_loop(e2, stream, r.pos, next, FALSE,
                                          i + 1, 1)
             ELSE LET e2 == append_field(e1, SizeT(i))
                  IN  IF Stopped(e2) THEN e2
                      ELSE IF e2.ret # 0 THEN Ret(e2, 2)
                      ELSE load_loop(e2, stream, r.pos, next, FALSE, i, j + 1)

\* file: [found, data]
csv_load(e, file) ==
    IF Stopped(e) THEN e
    ELSE IF ~file.found THEN Ret(e, 1)
    ELSE load_loop([e EXCEPT !.fp = "open"], file.data, 0, 1, TRUE, -1, -1)

(***************************************************************************)
(* The serializer.                                                         *)
(***************************************************************************)
\* strchr(text, ch) != NULL
strchr(text, ch) == \E k \in 1..Len(text) : text[k] = ch

\* the escaping loop without the doubling of line 665
RECURSIVE save_escaped_no_doubling(_, _, _)
save_escaped_no_doubling(f, text_delim, k) ==
    IF ~(k < SizeT(f.length - 1)) THEN <<>>
    ELSE <<f.text[k + 1]>> \o save_escaped_no_doubling(f, text_delim, k + 1)

\* lines 663-670
RECURSIVE save_escaped(_, _, _)
save_escaped(f, text_delim, k) ==
    IF ~(k < SizeT(f.length - 1)) THEN <<>>
    ELSE (IF f.text[k + 1] = text_delim THEN <<text_delim>> ELSE <<>>)
         \o <<f.text[k + 1]>> \o save_escaped(f, text_delim, k + 1)

\* a field written without the quoting decision of lines 653-657
save_field_never_quoted(f, field_delim, text_delim) == f.text

\* lines 653-675
save_field(f, field_delim, text_delim) ==
    IF \/ strchr(f.text, text_delim)
       \/ strchr(f.text, field_delim)
       \/ strchr(f.text, NEWLINE)
    THEN <<text_delim>> \o save_escaped(f, text_delim, 0) \o <<text_delim>>
    ELSE f.text

\* a separator that ends the last row with a newline too
save_separator_after_last_row(e, i, j) ==
    IF j < SizeT(e.width[i + 1] - 1) THEN <<e.field_delim>> ELSE <<NEWLINE>>

\* lines 676-679
save_separator(e, i, j) ==
    IF j < SizeT(e.width[i + 1] - 1) THEN <<e.field_delim>>
    ELSE IF i < SizeT(e.rows - 1) THEN <<NEWLINE>>
    ELSE <<>>

\* lines 652-680
RECURSIVE save_row(_, _, _)
save_row(e, i, j) ==
    IF ~(j < e.width[i + 1]) THEN <<>>
    ELSE save_field(e.field[i + 1][j + 1], e.field_delim, e.text_delim)
         \o save_separator(e, i, j) \o save_row(e, i, j + 1)

\* lines 651-681
RECURSIVE save_rows(_, _)
save_rows(e, i) ==
    IF ~(i < e.rows) THEN <<>>
    ELSE save_row(e, i, 0) \o save_rows(e, i + 1)

csv_save(e) ==
    IF Stopped(e) THEN e
    ELSE IF e.rows > 0 /\ (~e.wlive \/ ~e.flive) THEN UB(e)
    ELSE [e EXCEPT !.out = save_rows(e, 0), !.fp = "closed", !.ret = 0]

(***************************************************************************)
(* csv_create_buffer.                                                      *)
(***************************************************************************)
csv_create_buffer ==
    [rows |-> 0, width |-> <<>>, field |-> <<>>,
     field_delim |-> FIELD_DELIM, text_delim |-> TEXT_DELIM]

\* the buffer csv_set_field builds cell by cell from a table of texts
MkBuffer(table) ==
    [csv_create_buffer EXCEPT
        !.rows = Len(table),
        !.width = [i \in 1..Len(table) |-> Len(table[i])],
        !.field = [i \in 1..Len(table) |->
                      [j \in 1..Len(table[i]) |->
                          set_field(create_field, table[i][j])]]]

(***************************************************************************)
(* The operation machine: one buffer, created empty, and every public      *)
(* operation applied to it with arguments from small sets.                 *)
(*   buffer  the CSV_BUFFER                                                *)
(*   heap    liveness of buffer->width and buffer->field, whether some     *)
(*           block was lost, and what realloc(p, 0) does                   *)
(*   stop    "run", or "ub" / "hang" once a call ran into undefined        *)
(*           behaviour / never returns (the other variables then carry no  *)
(*           meaning beyond the point where the call stopped)              *)
(*   call    the last call: name, arguments, allocation plan, result       *)
(*   pre     the buffer (b) and the heap (h) before the last call          *)
(*   dest    the caller's array of the last csv_get_field, before / after  *)
(*   fp      the stream of the last csv_load / csv_save                    *)
(*   file, file0   the texts written by the last two csv_save              *)
(*   rt      stage of the save / load / save sequence                      *)
(* A call is made when no call is pending (call = NoCall); it leaves its   *)
(* arguments, its result and the buffer it started from in call and pre,   *)
(* and Return hands control back to the caller, who forgets them.          *)
(***************************************************************************)
VARIABLES buffer, heap, stop, call, pre, dest, fp, file, file0, rt

vars == <<buffer, heap, stop, call, pre, dest, fp, file, file0, rt>>

Chr_a == "a"
Chr_b == "b"
Chr_x == "x"

\* texts handed to csv_set_field and csv_insert_field
TextArgs == {<<>>, <<Chr_a>>, <<Chr_a, Chr_b>>}

\* streams handed to csv_load in the operation machine
LoadStreams ==
    {<<>>, <<Chr_a>>, <<Chr_a, FIELD_DELIM, Chr_a, Chr_b>>,
     <<Chr_a, Chr_b, NEWLINE, Chr_a>>, <<Chr_a, NEWLINE>>}

Plans ==
    {NoFail} \cup [at : 1..MaxAllocAt, always : BOOLEAN]

\* the other buffers csv_copy_row copies from: one without rows, one with
\* a row of two fields and a row of one empty field
SrcTables ==
    << <<>>,
       << <<(<<Chr_a>>), (<<Chr_b>>)>>, <<(<<>>)>> >> >>
\* source number 0 is the destination buffer itself
SrcArgs == 0..Len(SrcTables)
SrcBuffer(src) == MkBuffer(SrcTables[src])

RowArgs == 0..MaxRows
EntryArgs == 0..MaxWidth

Buf(e) ==
    [rows |-> e.rows, width |-> e.width, field |-> e.field,
     field_delim |-> e.field_delim, text_delim |-> e.text_delim]
Heap(e) ==
    [wlive |-> e.wlive, flive |-> e.flive, zero_null |-> e.zero_null,
     leaked |-> e.leaked]
StopOf(e) == IF e.ub THEN "ub" ELSE IF e.hang THEN "hang" ELSE "run"

InBounds(e) ==
    /\ e.rows <= MaxRows
    /\ \A r \in 1..Len(e.field) : Len(e.field[r]) <= MaxWidth

NoCall ==
    [name |-> "none", row |-> 0, entry |-> 0, src |-> 0, src_row |-> 0,
     dest_len |-> 0, text |-> <<>>, plan |-> NoFail, ret |-> 0]
NoDest == [before |-> <<>>, after |-> <<>>]

\* what a call that read outside its storage may hand back
UBValues == {-1, 0, 1}

\* the common tail of every mutating call
Mutate(e, c) ==
    /\ InBounds(e)
    /\ buffer' = Buf(e)
    /\ heap' = Heap(e)
    /\ stop' = StopOf(e)
    /\ call' = [c EXCEPT !.ret = IF Stopped(e) THEN -1 ELSE e.ret]
    /\ pre' = [b |-> buffer, h |-> heap]
    /\ fp' = e.fp
    /\ dest' = NoDest
    /\ UNCHANGED <<file, file0, rt>>

\* the common tail of every size query
Query(e, c) ==
    /\ buffer' = Buf(e)
    /\ heap' = Heap(e)
    /\ stop' = StopOf(e)
    /\ \E v \in UBValues :
          call' = [c EXCEPT !.ret = IF e.ub THEN v ELSE e.ret]
    /\ pre' = [b |-> buffer, h |-> heap]
    /\ fp' = e.fp
    /\ dest' = NoDest
    /\ UNCHANGED <<file, file0, rt>>

Init ==
    /\ buffer = csv_create_buffer
    /\ heap \in [wlive : {TRUE}, flive : {TRUE}, zero_null : BOOLEAN,
                 leaked : {FALSE}]
    /\ stop = "run"
    /\ call = NoCall
    /\ pre = [b |-> buffer, h |-> heap]
    /\ dest = NoDest
    /\ fp = "none"
    /\ file = <<>>
    /\ file0 = <<>>
    /\ rt = 0

CsvSetField ==
    /\ stop = "run" /\ call = NoCall
    /\ \E row \in 0..(MaxRows - 1), entry \in 0..(MaxWidth - 1),
          text \in TextArgs, plan \in Plans :
          Mutate(csv_set_field(Exec(buffer, heap, plan), row, entry, text),
                 [NoCall EXCEPT !.name = "csv_set_field", !.row = row,
                     !.entry = entry, !.text = text, !.plan = plan])

CsvInsertField ==
    /\ stop = "run" /\ call = NoCall
    /\ \E row \in 0..(MaxRows - 1), entry \in 0..(MaxWidth - 1),
          text \in TextArgs, plan \in Plans :
          Mutate(csv_insert_field(Exec(buffer, heap, plan), row, entry, text),
                 [NoCall EXCEPT !.name = "csv_insert_field", !.row = row,
                     !.entry = entry, !.text = text, !.plan = plan])

CsvRemoveField ==
    /\ stop = "run" /\ call = NoCall
    /\ \E row \in RowArgs, entry \in EntryArgs :
          Mutate(csv_remove_field(Exec(buffer, heap, NoFail), row, entry),
                 [NoCall EXCEPT !.name = "csv_remove_field", !.row = row,
                     !.entry = entry])

CsvClearField ==
    /\ stop = "run" /\ call = NoCall
    /\ \E row \in RowArgs, entry \in EntryArgs :
          Mutate(csv_clear_field(Exec(buffer, heap, NoFail), row, entry),
                 [NoCall EXCEPT !.name = "csv_clear_field", !.row = row,
                     !.entry = entry])

CsvClearRow ==
    /\ stop = "run" /\ call = NoCall
    /\ \E row \in RowArgs :
          Mutate(csv_clear_row(Exec(buffer, heap, NoFail), row),
                 [NoCall EXCEPT !.name = "csv_clear_row", !.row = row])

CsvRemoveRow ==
    /\ stop = "run" /\ call = NoCall
    /\ \E row \in RowArgs, plan \in Plans :
          Mutate(csv_remove_row(Exec(buffer, heap, plan), row),
                 [NoCall EXCEPT !.name = "csv_remove_row", !.row = row,
                     !.plan = plan])

CsvCopyRow ==
    /\ stop = "run" /\ call = NoCall
    /\ \E row \in 0..(MaxRows - 1), src \in SrcArgs, src_row \in RowArgs,
          plan \in Plans :
          Mutate(csv_copy_row(Exec(buffer, heap, plan), row,
                              IF src = 0 THEN SELF ELSE Other(SrcBuffer(src)),
                              src_row),
                 [NoCall EXCEPT !.name = "csv_copy_row", !.row = row,
                     !.src = src, !.src_row = src_row, !.plan = plan])

CsvLoad ==
    /\ stop = "run" /\ call = NoCall
    /\ \E data \in LoadStreams, found \in BOOLEAN, plan \in Plans :
          Mutate(csv_load(Exec(buffer, heap, plan),
                          [found |-> found, data |-> data]),
                 [NoCall EXCEPT !.name = "csv_load", !.text = data,
                     !.row = IF found THEN 1 ELSE 0, !.plan = plan])

CsvGetWidth ==
    /\ stop = "run" /\ call = NoCall
    /\ \E row \in RowArgs :
          Query(csv_get_width(Exec(buffer, heap, NoFail), row),
                [NoCall EXCEPT !.name = "csv_get_width", !.row = row])

CsvGetFieldLength ==
    /\ stop = "run" /\ call = NoCall
    /\ \E row \in RowArgs, entry \in EntryArgs :
          Query(csv_get_field_length(Exec(buffer, heap, NoFail), row, entry),
                [NoCall EXCEPT !.name = "csv_get_field_length", !.row = row,
                    !.entry = entry])

CsvGetHeight ==
    /\ stop = "run" /\ call = NoCall
    /\ Query(csv_get_height(Exec(buffer, heap, NoFail)),
             [NoCall EXCEPT !.name = "csv_get_height"])

CsvGetField ==
    /\ stop = "run" /\ call = NoCall
    /\ \E dest_len \in 0..MaxDestLen, row \in RowArgs, entry \in EntryArgs :
          LET before == [i \in 1..(dest_len + 1) |-> Chr_x]
              g == csv_get_field(before, dest_len,
                                 Exec(buffer, heap, NoFail), row, entry)
          IN  /\ dest' = [before |-> before, after |-> g.dest]
              /\ stop' = IF g.ub THEN "ub" ELSE "run"
              /\ \E v \in UBValues :
                    call' = [NoCall EXCEPT !.name = "csv_get_field",
                                !.row = row, !.entry = entry,
                                !.dest_len = dest_len,
                                !.ret = IF g.ub THEN v ELSE g.ret]
              /\ pre' = [b |-> buffer, h |-> heap]
              /\ UNCHANGED <<buffer, heap, fp, file, file0, rt>>

Return ==
    /\ stop = "run" /\ call # NoCall
    /\ call' = NoCall
    /\ pre' = [b |-> buffer, h |-> heap]
    /\ dest' = NoDest
    /\ fp' = "none"
    /\ UNCHANGED <<buffer, heap, stop, file, file0, rt>>

Next ==
    \/ Return
    \/ CsvSetField
    \/ CsvInsertField
    \/ CsvRemoveField
    \/ CsvClearField
    \/ CsvClearRow
    \/ CsvRemoveRow
    \/ CsvCopyRow
    \/ CsvLoad
    \/ CsvGetWidth
    \/ CsvGetFieldLength
    \/ CsvGetHeight
    \/ CsvGetField

Spec == Init /\ [][Next]_vars

(***************************************************************************)
(* Vocabulary of the claims.                                               *)
(***************************************************************************)
\* the last call has returned (it neither ran into undefined behaviour nor
\* hangs)
Returned(name) == call.name = name /\ stop = "run"

\* the buffer the last call started from was sound: both index arrays
\* live, as many widths and rows as rows says
PreLive == pre.h.wlive /\ pre.h.flive
Live == heap.wlive /\ heap.flive

\* cell (row, entry), counted from 0, exists in buffer b
HasCell(b, row, entry) == row < b.rows /\ entry < b.width[row + 1]
TextAt(b, row, entry) == b.field[row + 1][entry + 1].text
RowTexts(b, row) ==
    [j \in 1..Len(b.field[row + 1]) |-> b.field[row + 1][j].text]
SameRow(b1, r1, b2, r2) ==
    /\ b1.width[r1 + 1] = b2.width[r2 + 1]
    /\ RowTexts(b1, r1) = RowTexts(b2, r2)

(***************************************************************************)
(* C2 (stated as claimed; the code violates it).  Width invariant: after   *)
(* any sequence of the mutating operations, every row with index < rows    *)
(* has width >= 1.                                                         *)
(***************************************************************************)
C2_WidthInvariant ==
    (stop = "run" /\ Live) =>
        \A r \in 1..buffer.rows : buffer.width[r] >= 1

(***************************************************************************)
(* C3 (stated as claimed; the code violates it).  csv_get_field on an      *)
(* absent cell with dest_len >= 1 returns 2 and leaves every one of the    *)
(* dest_len bytes of dest null.                                            *)
(***************************************************************************)
C3_AbsentCellNullFilled ==
    (/\ Returned("csv_get_field") /\ PreLive
     /\ call.dest_len >= 1
     /\ ~HasCell(pre.b, call.row, call.entry)) =>
        /\ call.ret = 2
        /\ \A i \in 1..call.dest_len : dest.after[i] = NUL

(***************************************************************************)
(* C4 (stated as claimed; the code violates it).  csv_clear_row on an      *)
(* existing row r, the last row included, keeps the number of rows, leaves *)
(* row r with exactly one empty field and every other row unchanged.       *)
(***************************************************************************)
C4_ClearRowKeepsOneEmptyField ==
    (/\ call.name = "csv_clear_row" /\ PreLive
     /\ call.row < pre.b.rows
     /\ \A r \in 1..pre.b.rows : pre.b.width[r] >= 1) =>
        /\ stop = "run" /\ Live
        /\ buffer.rows = pre.b.rows
        /\ buffer.width[call.row + 1] = 1
        /\ TextAt(buffer, call.row, 0) = <<>>
        /\ \A r \in 0..(pre.b.rows - 1) :
              r # call.row => SameRow(buffer, r, pre.b, r)

(***************************************************************************)
(* C5 (stated as claimed; the code violates it).  For a row index          *)
(* r >= rows, the empty buffer included, csv_get_width and                 *)
(* csv_get_field_length return 0 without reading row storage;              *)
(* csv_get_field_length also returns 0 for an existing row and an entry    *)
(* >= width[r].                                                            *)
(***************************************************************************)
C5_AbsentSizeIsZero ==
    /\ (call.name = "csv_get_width" /\ PreLive /\ call.row >= pre.b.rows) =>
          (stop = "run" /\ call.ret = 0)
    /\ (/\ call.name = "csv_get_field_length" /\ PreLive
        /\ ~HasCell(pre.b, call.row, call.entry)) =>
          (stop = "run" /\ call.ret = 0)

(***************************************************************************)
(* C6 (stated as claimed; the code violates it).  csv_remove_row on row r  *)
(* of a buffer with n >= 1 rows leaves n - 1 rows, rows before r           *)
(* unchanged, and row i (r <= i < n - 1) equal to the former row i + 1.    *)
(***************************************************************************)
C6_RemoveRowShiftsUp ==
    (/\ call.name = "csv_remove_row" /\ PreLive
     /\ call.plan = NoFail
     /\ call.row < pre.b.rows
     /\ \A r \in 1..pre.b.rows : pre.b.width[r] >= 1) =>
        /\ stop = "run" /\ Live
        /\ buffer.rows = pre.b.rows - 1
        /\ \A i \in 0..(call.row - 1) : SameRow(buffer, i, pre.b, i)
        /\ \A i \in call.row..(pre.b.rows - 2) :
              SameRow(buffer, i, pre.b, i + 1)

(***************************************************************************)
(* C7 (stated as claimed; the code violates it).  Every csv_load that      *)
(* opened the file has closed the stream when it returns, with 0 or with   *)
(* the resource-error code 2.                                              *)
(***************************************************************************)
C7_LoadClosesStream ==
    (Returned("csv_load") /\ call.ret \in {0, 2}) => fp = "closed"

(***************************************************************************)
(* C8.  csv_set_field grows and overwrites: when csv_set_field(row, entry, *)
(* text) returns 0, the buffer has rows >= row + 1 and                     *)
(* width[row] >= entry + 1, the target cell holds exactly text, every cell *)
(* that existed before other than the target keeps its text, every row    *)
(* that existed before other than row keeps its width, and every newly     *)
(* created cell other than the target is empty.                            *)
(***************************************************************************)
C8_SetFieldGrowsAndOverwrites ==
    (Returned("csv_set_field") /\ call.ret = 0) =>
        /\ buffer.rows >= call.row + 1
        /\ buffer.width[call.row + 1] >= call.entry + 1
        /\ Len(buffer.field[call.row + 1]) = buffer.width[call.row + 1]
        /\ TextAt(buffer, call.row, call.entry) = call.text
        /\ \A i \in 0..(pre.b.rows - 1) :
              /\ i # call.row => SameRow(buffer, i, pre.b, i)
              /\ \A j \in 0..(pre.b.width[i + 1] - 1) :
                    <<i, j>> # <<call.row, call.entry>> =>
                        /\ HasCell(buffer, i, j)
                        /\ TextAt(buffer, i, j) = TextAt(pre.b, i, j)
        /\ \A i \in 0..(buffer.rows - 1) :
              /\ Len(buffer.field[i + 1]) = buffer.width[i + 1]
              /\ \A j \in 0..(buffer.width[i + 1] - 1) :
                    (/\ ~HasCell(pre.b, i, j)
                     /\ <<i, j>> # <<call.row, call.entry>>) =>
                        TextAt(buffer, i, j) = <<>>

\* csv_set_field returned 0 after appending a row and a field before the
\* target, and wrote a non-empty text
C8_Witness ==
    /\ Returned("csv_set_field") /\ call.ret = 0
    /\ buffer.rows > pre.b.rows
    /\ pre.b.rows >= 1
    /\ call.entry >= 1
    /\ call.text # <<>>
    /\ TextAt(buffer, call.row, call.entry) = call.text

RtAlphabet == {Chr_a, FIELD_DELIM, TEXT_DELIM, NEWLINE}
\* longer texts with more than one text delimiter
RtLongTexts ==
    {<<TEXT_DELIM, TEXT_DELIM>>, <<Chr_a, TEXT_DELIM>>,
     <<TEXT_DELIM, Chr_a, TEXT_DELIM>>}
RtTexts == UNION {[1..k -> RtAlphabet] : k \in 0..RtMaxLen} \cup RtLongTexts
RtRows == UNION {[1..w -> RtTexts] : w \in 1..RtMaxWidth}
RtTables == UNION {[1..n -> RtRows] : n \in 0..RtMaxRows}

NewHeap ==
    [wlive |-> TRUE, flive |-> TRUE, zero_null |-> TRUE, leaked |-> FALSE]

InitRT ==
    /\ buffer \in {MkBuffer(t) : t \in RtTables}
    /\ heap = NewHeap
    /\ stop = "run"
    /\ call = NoCall
    /\ pre = [b |-> buffer, h |-> heap]
    /\ dest = NoDest
    /\ fp = "none"
    /\ file = <<>>
    /\ file0 = <<>>
    /\ rt = 0

CsvSave ==
    /\ stop = "run" /\ rt \in {0, 2}
    /\ LET e == csv_save(Exec(buffer, heap, NoFail))
       IN  /\ file' = e.out
           /\ file0' = file
           /\ fp' = e.fp
           /\ stop' = StopOf(e)
           /\ call' = [NoCall EXCEPT !.name = "csv_save", !.ret = e.ret]
    /\ pre' = IF rt = 0 THEN [b |-> buffer, h |-> heap] ELSE pre
    /\ rt' = rt + 1
    /\ UNCHANGED <<buffer, heap, dest>>

CsvLoadNew ==
    /\ stop = "run" /\ rt = 1
    /\ LET e == csv_load(Exec(csv_create_buffer, NewHeap, NoFail),
                         [found |-> TRUE, data |-> file])
       IN  /\ buffer' = Buf(e)
           /\ heap' = Heap(e)
           /\ fp' = e.fp
           /\ stop' = StopOf(e)
           /\ call' = [NoCall EXCEPT !.name = "csv_load", !.text = file,
                          !.row = 1, !.ret = IF Stopped(e) THEN -1 ELSE e.ret]
    /\ rt' = 2
    /\ UNCHANGED <<pre, file, file0, dest>>

NextRT ==
    \/ CsvSave
    \/ CsvLoadNew

SpecRT == InitRT /\ [][NextRT]_vars

\* two buffers agree in the number of rows, every width and every text
SameTable(b1, b2) ==
    /\ b1.rows = b2.rows
    /\ \A r \in 0..(b1.rows - 1) : SameRow(b1, r, b2, r)

\* the last of two or more rows is one empty field: csv_save ends the text
\* with the newline that csv_load takes for the end of the file
EndsWithEmptyRow(b) ==
    /\ b.rows >= 2
    /\ b.width[b.rows] = 1
    /\ b.field[b.rows][1].text = <<>>

(***************************************************************************)
(* C1 as claimed.  Round trip: for every buffer B, csv_save of B followed  *)
(* by csv_load into a new buffer yields the rows, widths and texts of B.   *)
(***************************************************************************)
C1_RoundTripEveryBuffer ==
    rt >= 2 => (stop = "run" /\ call.ret = 0 /\ SameTable(buffer, pre.b))

(***************************************************************************)
(* C1 as amended.  Round trip for every buffer B that has at least one row *)
(* and does not end, after another row, in a row of one empty field.       *)
(***************************************************************************)
C1_RoundTrip ==
    (rt = 2 /\ pre.b.rows >= 1 /\ ~EndsWithEmptyRow(pre.b)) =>
        (stop = "run" /\ call.ret = 0 /\ SameTable(buffer, pre.b))

\* a buffer of two rows holding the text delimiter, the field delimiter and
\* a newline came back cell for cell
C1_Witness ==
    /\ rt = 2
    /\ pre.b.rows = 2
    /\ \E r \in 0..1 : \E j \in 0..(pre.b.width[r + 1] - 1) :
          strchr(TextAt(pre.b, r, j), TEXT_DELIM)
    /\ \E r \in 0..1 : \E j \in 0..(pre.b.width[r + 1] - 1) :
          strchr(TextAt(pre.b, r, j), FIELD_DELIM)
    /\ \E r \in 0..1 : \E j \in 0..(pre.b.width[r + 1] - 1) :
          strchr(TextAt(pre.b, r, j), NEWLINE)
    /\ SameTable(buffer, pre.b)

(***************************************************************************)
(* C10 as claimed.  Idempotent re-save: for every buffer B the text        *)
(* written by csv_save(B) and the text written by csv_save of the buffer   *)
(* loaded from it are identical.                                           *)
(***************************************************************************)
C10_ResaveEveryBuffer ==
    rt = 3 => file = file0

(***************************************************************************)
(* C10 as amended.  Idempotent re-save for every buffer B that does not    *)
(* end, after another row, in a row of one empty field.                    *)
(***************************************************************************)
C10_Resave ==
    (rt = 3 /\ ~EndsWithEmptyRow(pre.b)) => file = file0

\* a text with quoted fields on two lines was written twice
C10_Witness ==
    /\ rt = 3
    /\ pre.b.rows = 2
    /\ strchr(file0, TEXT_DELIM)
    /\ strchr(file0, NEWLINE)
    /\ Len(file0) >= 6
    /\ file = file0

(***************************************************************************)
(* C11 (stated as claimed; the code violates it).  csv_get_field with      *)
(* dest_len >= 1 returns 2 for every existing cell whose text is empty,    *)
(* and returns 0 only when a non-empty entry was copied whole.             *)
(***************************************************************************)
C11_EmptyCellReturnsTwo ==
    (/\ Returned("csv_get_field") /\ PreLive
     /\ call.dest_len >= 1
     /\ HasCell(pre.b, call.row, call.entry)
     /\ Len(pre.b.field[call.row + 1]) = pre.b.width[call.row + 1]) =>
        LET t == TextAt(pre.b, call.row, call.entry)
        IN  /\ t = <<>> => call.ret = 2
            /\ call.ret = 0 => (t # <<>> /\ Len(t) <= call.dest_len)

(***************************************************************************)
(* The written form of a table, stated without the loops of csv_save.      *)
(***************************************************************************)
RECURSIVE Doubled(_, _)
Doubled(t, delim) ==
    IF t = <<>> THEN <<>>
    ELSE (IF Head(t) = delim THEN <<delim, delim>> ELSE <<Head(t)>>)
         \o Doubled(Tail(t), delim)

NeedsQuotes(t) ==
    \E k \in 1..Len(t) : t[k] \in {TEXT_DELIM, FIELD_DELIM, NEWLINE}

Written(t) ==
    IF NeedsQuotes(t) THEN <<TEXT_DELIM>> \o Doubled(t, TEXT_DELIM) \o <<TEXT_DELIM>>
    ELSE t

\* the members of a sequence of texts with sep between neighbours
RECURSIVE Joined(_, _)
Joined(texts, sep) ==
    IF texts = <<>> THEN <<>>
    ELSE IF Len(texts) = 1 THEN texts[1]
    ELSE texts[1] \o <<sep>> \o Joined(Tail(texts), sep)

WrittenRow(b, r) ==
    Joined([j \in 1..b.width[r] |-> Written(b.field[r][j].text)], FIELD_DELIM)
WrittenTable(b) ==
    Joined([r \in 1..b.rows |-> WrittenRow(b, r)], NEWLINE)

(***************************************************************************)
(* C12.  Serializer quoting rule: csv_save writes a field text verbatim    *)
(* when it holds none of the text delimiter, the field delimiter and       *)
(* newline, and otherwise between two text delimiters with every text      *)
(* delimiter doubled; fields of a row are joined by one field delimiter,   *)
(* rows by one newline, and nothing follows the final row.                 *)
(***************************************************************************)
C12_QuotingRule ==
    rt = 1 => (stop = "run" /\ call.ret = 0 /\ file = WrittenTable(pre.b))

\* two rows were written, one of them with a text of two text delimiters
C12_Witness ==
    /\ rt = 1
    /\ pre.b.rows = 2
    /\ pre.b.width[1] = 2
    /\ TextAt(pre.b, 0, 0) = <<TEXT_DELIM, TEXT_DELIM>>
    /\ TextAt(pre.b, 0, 1) = <<Chr_a>>
    /\ TextAt(pre.b, 1, 0) = <<NEWLINE>>
    /\ file = <<TEXT_DELIM, TEXT_DELIM, TEXT_DELIM, TEXT_DELIM, TEXT_DELIM,
                TEXT_DELIM, FIELD_DELIM, Chr_a, NEWLINE,
                TEXT_DELIM, NEWLINE, TEXT_DELIM>>

(***************************************************************************)
(* The load machine: a stream of characters is read, field by field by     *)
(* read_next_field, and as a whole by csv_load into a new buffer.          *)
(*   file   the stream                                                     *)
(*   rt     1 while the stream waits to be loaded, 2 once buffer holds it  *)
(*   call   after read_next_field: row = the position of the stream before *)
(*          the call, entry = its position after the call, text = the text *)
(*          of the field, ret = the result code                            *)
(***************************************************************************)
TokAlphabet == {Chr_a, Chr_b, FIELD_DELIM, TEXT_DELIM, NEWLINE}
TokStreams == UNION {[1..k -> TokAlphabet] : k \in 0..MaxStreamLen}

InitTok ==
    /\ buffer = csv_create_buffer
    /\ heap = NewHeap
    /\ stop = "run"
    /\ call = NoCall
    /\ pre = [b |-> buffer, h |-> heap]
    /\ dest = NoDest
    /\ fp = "none"
    /\ file \in TokStreams
    /\ file0 = <<>>
    /\ rt = 1

\* one call of read_next_field on the open stream, as csv_load makes them
\* until the result code is 2
ReadNextField ==
    /\ stop = "run" /\ rt = 1
    /\ call.name \in {"none", "read_next_field"}
    /\ ~(call.name = "read_next_field" /\ call.ret = 2)
    /\ LET pos == IF call.name = "none" THEN 0 ELSE call.entry
           r == read_next_field(file, pos, buffer.field_delim,
                                buffer.text_delim)
       IN  call' = [NoCall EXCEPT !.name = "read_next_field", !.row = pos,
                       !.entry = r.pos, !.text = r.text, !.ret = r.retval]
    /\ UNCHANGED <<buffer, heap, stop, pre, dest, fp, file, file0, rt>>

NextTok ==
    \/ ReadNextField
    \/ CsvLoadNew

SpecTok == InitTok /\ [][NextTok]_vars

(***************************************************************************)
(* The table of a text without text delimiters, stated by splitting.       *)
(***************************************************************************)
FirstIndex(s, ch) ==
    CHOOSE k \in 1..Len(s) : s[k] = ch /\ \A m \in 1..(k - 1) : s[m] # ch

RECURSIVE SplitOn(_, _)
SplitOn(s, ch) ==
    IF ~strchr(s, ch) THEN <<s>>
    ELSE LET k == FirstIndex(s, ch)
         IN  <<SubSeq(s, 1, k - 1)>> \o SplitOn(SubSeq(s, k + 1, Len(s)), ch)

WithoutFinalNewline(s) ==
    IF s # <<>> /\ s[Len(s)] = NEWLINE THEN SubSeq(s, 1, Len(s) - 1) ELSE s

SplitTable(s) ==
    LET lines == SplitOn(WithoutFinalNewline(s), NEWLINE)
    IN  [r \in 1..Len(lines) |-> SplitOn(lines[r], FIELD_DELIM)]

TableOf(b) == [r \in 1..b.rows |-> RowTexts(b, r - 1)]

(***************************************************************************)
(* C13.  Loader shape with absorbed trailing newline: for every stream     *)
(* without a text delimiter, csv_load into a new buffer yields the table   *)
(* obtained by removing one final newline, splitting the rest on newline   *)
(* into rows and each row on the field delimiter into fields.              *)
(***************************************************************************)
C13_LoaderShape ==
    (rt = 2 /\ ~strchr(file, TEXT_DELIM)) =>
        /\ stop = "run" /\ call.ret = 0
        /\ TableOf(buffer) = SplitTable(file)
        /\ \A r \in 1..buffer.rows : buffer.width[r] = Len(buffer.field[r])

\* a stream with consecutive field delimiters, a second line and a final
\* newline was loaded as a row of three cells and a row of one
C13_Witness ==
    /\ rt = 2
    /\ file = <<FIELD_DELIM, FIELD_DELIM, NEWLINE, Chr_b, NEWLINE>>
    /\ buffer.rows = 2
    /\ buffer.width = <<3, 1>>
    /\ TextAt(buffer, 1, 0) = <<Chr_b>>

(***************************************************************************)
(* C14 (stated as claimed; the code violates it).  csv_set_field always    *)
(* returns: every call of csv_set_field on a sound buffer returns with     *)
(* code 0 or 1, also when the growth of the row or field storage fails,    *)
(* once or on every attempt.                                               *)
(***************************************************************************)
C14_SetFieldAlwaysReturns ==
    (/\ call.name = "csv_set_field" /\ PreLive
     /\ \A r \in 1..pre.b.rows : pre.b.width[r] >= 1) =>
        (stop = "run" /\ call.ret \in {0, 1})

\* the buffer the last csv_copy_row copied from
SourceBuffer == IF call.src = 0 THEN pre.b ELSE SrcBuffer(call.src)

(***************************************************************************)
(* C15.  csv_copy_row with an existing source row: after                   *)
(* csv_copy_row(dest, d, source, s) with s < source rows returns 0, the    *)
(* destination has rows >= d + 1, dest row d has the width and the texts   *)
(* source row s had, and every other dest row that existed before is       *)
(* unchanged; dest may be the source buffer itself.                        *)
(***************************************************************************)
C15_CopyRowExistingSource ==
    (/\ Returned("csv_copy_row") /\ PreLive
     /\ call.ret = 0
     /\ call.src_row < SourceBuffer.rows) =>
        /\ Live
        /\ buffer.rows >= call.row + 1
        /\ Len(buffer.field[call.row + 1]) = buffer.width[call.row + 1]
        /\ SameRow(buffer, call.row, SourceBuffer, call.src_row)
        /\ \A r \in 0..(pre.b.rows - 1) :
              r # call.row => SameRow(buffer, r, pre.b, r)

\* row 1, of one field, was copied over row 0, of two fields, in the same
\* buffer
C15_Witness ==
    /\ Returned("csv_copy_row") /\ call.ret = 0
    /\ call.src = 0 /\ call.src_row = 1 /\ call.row = 0
    /\ pre.b.rows = 2
    /\ pre.b.width = <<2, 1>>
    /\ TextAt(pre.b, 1, 0) = <<Chr_a>>
    /\ TextAt(pre.b, 0, 0) = <<Chr_a, Chr_b>>
    /\ buffer.width = <<1, 1>>
    /\ TextAt(buffer, 0, 0) = <<Chr_a>>

(***************************************************************************)
(* C16 (stated as claimed; the code violates it).  csv_copy_row with a     *)
(* missing source row: every call with source_row >= the number of rows of *)
(* the source buffer returns 1.                                            *)
(***************************************************************************)
C16_CopyRowMissingSource ==
    (/\ call.name = "csv_copy_row" /\ PreLive
     /\ \A r \in 1..pre.b.rows : pre.b.width[r] >= 1
     /\ call.plan = NoFail
     /\ call.src_row >= SourceBuffer.rows) =>
        (stop = "run" /\ call.ret = 1)

\* the buffer the last call started from was sound and every row of it had
\* a field
PreSound ==
    /\ PreLive
    /\ \A r \in 1..pre.b.rows :
          pre.b.width[r] >= 1 /\ Len(pre.b.field[r]) = pre.b.width[r]

\* every row other than row keeps its width and its texts
OtherRowsKept(row) ==
    /\ buffer.rows = pre.b.rows
    /\ \A r \in 0..(pre.b.rows - 1) : r # row => SameRow(buffer, r, pre.b, r)

(***************************************************************************)
(* C17 (stated as claimed; the code violates it).  csv_insert_field on an  *)
(* existing cell: for an existing row r of width w and e < w, after        *)
(* csv_insert_field(buffer, r, e, t) row r has width w + 1, field e holds  *)
(* t, fields 0..e-1 are unchanged, field i for e < i <= w holds the text   *)
(* field i - 1 had before, and all other rows are unchanged.               *)
(***************************************************************************)
C17_InsertFieldShiftsRight ==
    (/\ call.name = "csv_insert_field" /\ PreSound
     /\ HasCell(pre.b, call.row, call.entry)) =>
        LET w == pre.b.width[call.row + 1]
        IN  /\ stop = "run" /\ Live
            /\ OtherRowsKept(call.row)
            /\ buffer.width[call.row + 1] = w + 1
            /\ Len(buffer.field[call.row + 1]) = w + 1
            /\ TextAt(buffer, call.row, call.entry) = call.text
            /\ \A i \in 0..(call.entry - 1) :
                  TextAt(buffer, call.row, i) = TextAt(pre.b, call.row, i)
            /\ \A i \in (call.entry + 1)..w :
                  TextAt(buffer, call.row, i) = TextAt(pre.b, call.row, i - 1)

(***************************************************************************)
(* C18 (stated as claimed; the code violates it).  csv_remove_field: for   *)
(* an existing row r of width w and e < w, after                           *)
(* csv_remove_field(buffer, r, e): if w >= 2, row r has width w - 1,       *)
(* fields 0..e-1 are unchanged and field i for e <= i < w - 1 holds the    *)
(* text field i + 1 had before; if w = 1, row r keeps width 1 and its      *)
(* field is empty.  All other rows are unchanged, and a call with an       *)
(* absent row or entry changes nothing.                                    *)
(***************************************************************************)
C18_RemoveFieldShiftsLeft ==
    (call.name = "csv_remove_field" /\ PreSound) =>
        /\ stop = "run" /\ Live
        /\ OtherRowsKept(call.row)
        /\ IF ~HasCell(pre.b, call.row, call.entry) THEN buffer = pre.b
           ELSE LET w == pre.b.width[call.row + 1]
                IN  /\ buffer.width[call.row + 1] = (IF w >= 2 THEN w - 1 ELSE 1)
                    /\ Len(buffer.field[call.row + 1]) =
                           buffer.width[call.row + 1]
                    /\ w = 1 => TextAt(buffer, call.row, 0) = <<>>
                    /\ w >= 2 =>
                          /\ \A i \in 0..(call.entry - 1) :
                                TextAt(buffer, call.row, i) =
                                    TextAt(pre.b, call.row, i)
                          /\ \A i \in call.entry..(w - 2) :
                                TextAt(buffer, call.row, i) =
                                    TextAt(pre.b, call.row, i + 1)

(***************************************************************************)
(* The quoted grammar, stated on the indices 1..Len(s) of a stream s.      *)
(***************************************************************************)
\* the span that starts at index k, after the opening text delimiter: its
\* text, and the index after the text delimiter that closes it (Len(s) + 1
\* when the stream ends first)
RECURSIVE QuotedSpan(_, _)
QuotedSpan(s, k) ==
    IF k > Len(s) THEN [text |-> <<>>, next |-> k]
    ELSE IF s[k] # TEXT_DELIM
         THEN LET r == QuotedSpan(s, k + 1)
              IN  [text |-> <<s[k]>> \o r.text, next |-> r.next]
    ELSE IF k + 1 <= Len(s) /\ s[k + 1] = TEXT_DELIM
         THEN LET r == QuotedSpan(s, k + 2)
              IN  [text |-> <<TEXT_DELIM>> \o r.text, next |-> r.next]
    ELSE [text |-> <<>>, next |-> k + 1]

\* the first index from k on that holds one of chars, Len(s) + 1 if none
FirstOf(s, k, chars) ==
    IF \E m \in k..Len(s) : s[m] \in chars
    THEN CHOOSE m \in k..Len(s) :
             s[m] \in chars /\ \A n \in k..(m - 1) : s[n] \notin chars
    ELSE Len(s) + 1

\* the result code for the terminator at index m
TerminatorCode(s, m) ==
    IF m > Len(s) THEN 2
    ELSE IF s[m] = FIELD_DELIM THEN 0
    ELSE IF m = Len(s) THEN 2
    ELSE 1

(***************************************************************************)
(* C19.  Tokenizer quoted-field grammar: when the next field begins with   *)
(* the text delimiter, read_next_field sets the field text to the quoted   *)
(* span with each doubled text delimiter reduced to one and with field     *)
(* delimiters and newlines kept; the span closes at the first text         *)
(* delimiter not followed by another one, the characters after it are      *)
(* ignored up to the next field delimiter, newline or end of stream, and   *)
(* that terminator gives the result code.                                  *)
(***************************************************************************)
C19_QuotedGrammar ==
    (/\ call.name = "read_next_field"
     /\ call.row < Len(file)
     /\ file[call.row + 1] = TEXT_DELIM) =>
        LET q == QuotedSpan(file, call.row + 2)
            m == FirstOf(file, q.next, {FIELD_DELIM, NEWLINE})
        IN  /\ call.text = q.text
            /\ call.ret = TerminatorCode(file, m)
            /\ call.entry = IF m > Len(file) THEN Len(file) ELSE m

\* a span holding a field delimiter was read, the letter after its end was
\* ignored and the newline before the end of the stream gave code 2
C19_Witness ==
    /\ call.name = "read_next_field"
    /\ file = <<TEXT_DELIM, FIELD_DELIM, TEXT_DELIM, Chr_a, NEWLINE>>
    /\ call.row = 0
    /\ call.text = <<FIELD_DELIM>>
    /\ call.ret = 2

(***************************************************************************)
(* C20 (stated as claimed; the code violates it).  Mid-field quote         *)
(* discards the prefix: when read_next_field reads a text delimiter after  *)
(* one or more unquoted characters of the field, the field text is the     *)
(* text of the quoted span that follows alone - for every span, an empty   *)
(* one and one ended by the end of the stream included.                    *)
(***************************************************************************)
C20_MidFieldQuoteDiscardsPrefix ==
    LET m == FirstOf(file, call.row + 1, {FIELD_DELIM, NEWLINE, TEXT_DELIM})
    IN  (/\ call.name = "read_next_field"
         /\ m <= Len(file)
         /\ m > call.row + 1
         /\ file[m] = TEXT_DELIM) =>
            call.text = QuotedSpan(file, m + 1).text

(***************************************************************************)
(* The row machine: append_row applied once to a sound buffer, with every  *)
(* allocation plan.                                                        *)
(***************************************************************************)
InitRow ==
    /\ buffer \in {MkBuffer(t) : t \in RtTables}
    /\ heap = NewHeap
    /\ stop = "run"
    /\ call = NoCall
    /\ pre = [b |-> buffer, h |-> heap]
    /\ dest = NoDest
    /\ fp = "none"
    /\ file = <<>>
    /\ file0 = <<>>
    /\ rt = 0

AppendRow ==
    /\ stop = "run" /\ call = NoCall
    /\ \E plan \in Plans :
          LET e == append_row(Exec(buffer, heap, plan))
          IN  /\ buffer' = Buf(e)
              /\ heap' = Heap(e)
              /\ stop' = StopOf(e)
              /\ call' = [NoCall EXCEPT !.name = "append_row", !.plan = plan,
                             !.ret = IF Stopped(e) THEN -1 ELSE e.ret]
    /\ pre' = [b |-> buffer, h |-> heap]
    /\ UNCHANGED <<dest, fp, file, file0, rt>>

NextRow == AppendRow

SpecRow == InitRow /\ [][NextRow]_vars

(***************************************************************************)
(* C21 (stated as claimed; the code violates it).  append_row failure is   *)
(* non-destructive: whenever growth of the width array or of the           *)
(* row-pointer array fails inside append_row, append_row returns a         *)
(* non-zero code, rows is unchanged, and the width array and the           *)
(* row-pointer array of the buffer are still live storage holding the      *)
(* previous rows' widths and fields.                                       *)
(***************************************************************************)
C21_AppendRowFailureKeepsBuffer ==
    (call.name = "append_row" /\ call.plan.at \in {1, 2}) =>
        /\ stop = "run"
        /\ call.ret # 0
        /\ buffer = pre.b
        /\ Live

C23_RowIndexInsideBuffer ==
    (/\ call.name \in {"csv_get_width", "csv_get_field_length",
                       "csv_remove_row", "csv_remove_field",
                       "csv_insert_field", "csv_clear_row", "csv_copy_row"}
     /\ PreSound
     /\ call.plan = NoFail) =>
        stop # "ub"

(***************************************************************************)
(* C24 (stated as claimed; the code violates it).  No field is lost        *)
(* without being released: after any sequence of buffer operations every   *)
(* field and every per-row field array that was allocated is still         *)
(* reachable from the buffer or has been freed; in particular              *)
(* remove_last_row, called by csv_remove_row and csv_clear_row for an      *)
(* existing row, releases the remaining field of the dropped row and its   *)
(* field array.                                                            *)
(***************************************************************************)
C24_NoFieldLost ==
    (/\ call.name \in {"csv_remove_row", "csv_clear_row"}
     /\ PreSound /\ ~pre.h.leaked
     /\ call.plan = NoFail
     /\ call.row < pre.b.rows) =>
        (stop = "run" /\ ~heap.leaked)

(***************************************************************************)
(* C25 (stated as claimed; the code violates it).  csv_load leaves         *)
(* existing content alone: for a buffer that holds k >= 1 rows, after      *)
(* csv_load rows 0..k-1 have the widths and the texts they had before and  *)
(* the parsed table occupies rows k and above.                             *)
(***************************************************************************)
C25_LoadKeepsExistingRows ==
    (/\ Returned("csv_load") /\ PreSound
     /\ call.row = 1 /\ call.ret = 0
     /\ pre.b.rows >= 1) =>
        /\ buffer.rows >= pre.b.rows
        /\ \A r \in 0..(pre.b.rows - 1) : SameRow(buffer, r, pre.b, r)
        /\ LET table == SplitTable(call.text)
           IN  /\ buffer.rows = pre.b.rows + Len(table)
               /\ \A r \in 1..Len(table) :
                     RowTexts(buffer, pre.b.rows + r - 1) = table[r]

====
